---- MODULE Spec2Model ----
(***************************************************************************)
(* Model of the serde Serializer of bgp_oxide_serde (src/src/ser.rs) and   *)
(* of the Display impl of SerializerError (src/src/error.rs).              *)
(*                                                                         *)
(* One call of to_bytes is a depth-first traversal of a value.  The value  *)
(* drives the traversal through its Serialize impl (serde's derive, or the *)
(* impls serde ships for Vec, tuples, Option and HashMap): it calls one    *)
(* method of the Serializer per node, and for a compound one method per    *)
(* member and an end().  Each such method is one action here.  The calls   *)
(* the value has still to make are kept in `stack`, innermost first.       *)
(***************************************************************************)
EXTENDS Integers, Sequences, FiniteSets, TLC

VARIABLES
    pc,                     \* "idle" | "running" | "returned": where to_bytes is;
                            \* "direct": a method is called without to_bytes
    in_type,                \* the argument of the to_bytes call in progress
    output,                 \* Serializer.output, a sequence of bytes
    _err_type_metadata,     \* Serializer._err_type_metadata
    _err_variant_metadata,  \* Serializer._err_variant_metadata
    _err_field_metadata,    \* Serializer._err_field_metadata
    stack,                  \* the calls the value being walked has still to make
    err,                    \* the Err a method returned, NoErr while none has
    ret,                    \* what to_bytes returned
    last                    \* the previous to_bytes call: its argument and result

vars == <<pc, in_type, output, _err_type_metadata, _err_variant_metadata,
          _err_field_metadata, stack, err, ret, last>>

(***************************************************************************)
(* Values, as their Serialize impl shows them to a Serializer.             *)
(*   k       the Serializer method the value calls first                   *)
(*   name    the type name it passes (named containers)                    *)
(*   variant the variant name it passes (enum variants)                    *)
(*   keys    the field names it passes (struct, struct variant)            *)
(*   items   its members, in declaration/iteration order; for a map the    *)
(*           keys and values alternate                                     *)
(*   n       the payload of a scalar: <<b>> for the boolean b, the bytes   *)
(*           of a byte span, the value of an integer as 16-bit limbs,      *)
(*           least significant limb first (TLC's integers are 32 bits      *)
(*           wide, a u32 or u64 does not fit one)                          *)
(***************************************************************************)
Val(k, name, variant, keys, items, n) ==
    [k |-> k, name |-> name, variant |-> variant, keys |-> keys,
     items |-> items, n |-> n]

Leaf(k, n) == Val(k, "", "", <<>>, <<>>, n)

Bool(b) == Leaf("bool", <<b>>)
U8(v) == Leaf("u8", <<v>>)
U16(v) == Leaf("u16", <<v>>)
U32(limbs) == Leaf("u32", limbs)
U64(limbs) == Leaf("u64", limbs)
I8 == Leaf("i8", <<>>)
I16 == Leaf("i16", <<>>)
I32 == Leaf("i32", <<>>)
I64 == Leaf("i64", <<>>)
F32 == Leaf("f32", <<>>)
F64 == Leaf("f64", <<>>)
Char == Leaf("char", <<>>)
Str == Leaf("str", <<>>)
Bytes(b) == Leaf("bytes", b)
None == Leaf("none", <<>>)
Unit == Leaf("unit", <<>>)
UnitStruct(name) == Val("unit_struct", name, "", <<>>, <<>>, <<>>)
UnitVariant(name, variant) == Val("unit_variant", name, variant, <<>>, <<>>, <<>>)
Some(x) == Val("some", "", "", <<>>, <<x>>, <<>>)
NewtypeStruct(name, x) == Val("newtype_struct", name, "", <<>>, <<x>>, <<>>)
NewtypeVariant(name, variant, x) ==
    Val("newtype_variant", name, variant, <<>>, <<x>>, <<>>)
SeqOf(xs) == Val("seq", "", "", <<>>, xs, <<>>)
Tuple(xs) == Val("tuple", "", "", <<>>, xs, <<>>)
TupleStruct(name, xs) == Val("tuple_struct", name, "", <<>>, xs, <<>>)
TupleVariant(name, variant, xs) ==
    Val("tuple_variant", name, variant, <<>>, xs, <<>>)
Map(kvs) == Val("map", "", "", <<>>, kvs, <<>>)
Struct(name, keys, xs) == Val("struct", name, "", keys, xs, <<>>)
StructVariant(name, variant, keys, xs) ==
    Val("struct_variant", name, variant, keys, xs, <<>>)

(***************************************************************************)
(* The values to_bytes is called with.                                     *)
(***************************************************************************)
MaxLen == 2     \* most members of a generated sequence, tuple or record
MaxDepth == 2   \* most layers of the generated nestings

\* Values that encode: the two booleans, unsigned integers of each width
\* (least, greatest and a value whose bytes all differ), byte spans, and
\* the kinds that write nothing.
GoodLeaves ==
    { Bool(TRUE), Bool(FALSE),
      U8(0), U8(42), U8(255),
      U16(0), U16(258), U16(65535),
      U32(<<0, 0>>), U32(<<772, 258>>), U32(<<65535, 65535>>),
      U64(<<0, 0, 0, 0>>), U64(<<1800, 1286, 772, 258>>),
      U64(<<65535, 65535, 65535, 65535>>),
      Bytes(<<>>), Bytes(<<1, 2, 3>>),
      None, Unit, UnitStruct("UnitStruct"), UnitVariant("Enum", "UnitVariant") }

\* Unsigned integers of each width: every u8, and wider values with every
\* limb at its least, at its greatest and in between.
Limbs == {0, 1, 255, 256, 258, 4660, 32768, 65535}
Unsigned ==
    { U8(v) : v \in 0..255 }
    \cup { U16(v) : v \in Limbs }
    \cup { U32(l) : l \in [1..2 -> Limbs] }
    \cup { U64(l) : l \in [1..4 -> {0, 258, 65535}] }

\* Values of the kinds the format does not have.
BadLeaves ==
    { I8, I16, I32, I64, F32, F64, Char, Str,
      Map(<<>>), Map(<<Str, U8(255)>>), Map(<<U8(42), U16(258)>>) }

\* The shapes of the tests of ser.rs: x as the payload of each named container.
Placements(x) ==
    { NewtypeStruct("NewTypeStruct", x),
      TupleStruct("TupleStruct", <<U8(42), x>>),
      Struct("Struct", <<"field">>, <<x>>),
      NewtypeVariant("Enum", "NewTypeVariant", x),
      TupleVariant("Enum", "TupleVariant", <<U8(42), x>>),
      StructVariant("Enum", "StructVariant", <<"field">>, <<x>>) }

\* x inside containers that have no name.
Anonymous(x) ==
    { Some(x), SeqOf(<<x>>), Tuple(<<U8(42), x>>), Some(SeqOf(<<x>>)) }

\* x as the second of two fields of a record.
Siblings(x) ==
    { Struct("S", <<"a", "b">>, <<U8(42), x>>),
      StructVariant("E", "V", <<"a", "b">>, <<U8(42), x>>) }

FieldKeys(n) == [i \in 1..n |-> "f" \o ToString(i)]

\* Every container that takes a list of members, around the list xs.
Containers(xs) ==
    { SeqOf(xs), Tuple(xs), TupleStruct("TS", xs), TupleVariant("E", "TV", xs),
      Struct("S", FieldKeys(Len(xs)), xs),
      StructVariant("E", "SV", FieldKeys(Len(xs)), xs) }

Lists(M, n) == UNION { [1..k -> M] : k \in 0..n }

\* Named containers that encode, to stand before a sibling.
Completed ==
    { NewtypeStruct("Inner", U8(255)),
      TupleStruct("Inner", <<U8(255)>>),
      Struct("Inner", <<"x">>, <<U8(255)>>),
      NewtypeVariant("InnerE", "IV", U8(255)),
      TupleVariant("InnerE", "IV", <<U8(255)>>),
      StructVariant("InnerE", "IV", <<"x">>, <<U8(255)>>) }

\* x after a finished container c, in each container that has siblings.
After(c, x) ==
    { Struct("S", <<"a", "b">>, <<c, x>>),
      StructVariant("E", "V", <<"a", "b">>, <<c, x>>),
      TupleStruct("TS", <<c, x>>) }

\* x in a sequence or tuple that is the value of a field.
InField(x) ==
    { Struct("S", <<"f">>, <<SeqOf(<<x>>)>>),
      Struct("S", <<"f">>, <<Tuple(<<U8(42), x>>)>>),
      Struct("S", <<"a", "b">>, <<SeqOf(<<U8(42), x, U8(255)>>), U8(0)>>) }

\* x in a tuple that is the value of a field, after a finished container c.
InFieldAfter(c, x) ==
    { Struct("S", <<"f">>, <<Tuple(<<c, x>>)>>) }

\* A record whose Serialize impl passes an empty type name.
Unnamed == { Struct("", <<"f">>, <<I8>>) }

\* One more layer around x.
Layer(x) ==
    { Some(x), SeqOf(<<x>>), Tuple(<<U8(42), x>>),
      Struct("D", <<"d">>, <<x>>),
      NewtypeVariant("DE", "DV", x),
      TupleStruct("DT", <<x, U8(0)>>) }

RECURSIVE Layers(_, _)
Layers(X, d) ==
    IF d = 0 THEN {} ELSE
    LET Y == UNION { Layer(x) : x \in X } IN Y \cup Layers(Y, d - 1)

\* The wrappers that add nothing on the wire.
Wrappers(x) ==
    { Some(x), NewtypeStruct("N", x), NewtypeVariant("E", "NV", x) }

Wrapped ==
    GoodLeaves
    \cup { SeqOf(xs) : xs \in Lists({U8(42), U16(258)}, MaxLen) }
    \cup { Struct("Inner", <<"x", "y">>, <<U16(258), Bool(TRUE)>>) }

\* A value's members, their members, and so on.
RECURSIVE Parts(_)
Parts(v) ==
    { v } \cup UNION { Parts(v.items[i]) : i \in 1..Len(v.items) }

Roots ==
    GoodLeaves \cup BadLeaves
    \cup UNION { Placements(x) : x \in BadLeaves }
    \cup UNION { Anonymous(x) : x \in BadLeaves }
    \cup UNION { Siblings(x) : x \in BadLeaves }
    \cup UNION { Containers(xs) : xs \in Lists({U8(42), U16(258)}, MaxLen) }
    \cup { SeqOf(xs) : xs \in Lists({U8(42), I8, Str}, MaxLen) }
    \cup UNION { After(c, x) : c \in Completed, x \in {I8, Map(<<>>)} }
    \cup UNION { InField(x) : x \in {I8, F32, Str, Map(<<>>)} }
    \cup UNION { InFieldAfter(c, x) : c \in Completed, x \in {I8, Map(<<>>)} }
    \cup Unnamed
    \cup Layers({U8(42), I8, Map(<<>>)}, MaxDepth)
    \cup UNION { Wrappers(x) : x \in Wrapped }
    \cup Unsigned

\* to_bytes takes any Serialize value: every part of a value is one too.
Inputs == UNION { Parts(v) : v \in Roots }

\* The values of the calls made one after another: the wrappers and what
\* they wrap, and a value of every shape.
Repeated ==
    UNION { Parts(v) : v \in
        BadLeaves
        \cup UNION { Wrappers(x) : x \in Wrapped }
        \cup Containers(<<U8(42), U16(258)>>)
        \cup Placements(I8) \cup Anonymous(Str) \cup Siblings(Map(<<>>)) }

(***************************************************************************)
(* Results.  An Option<String> is the empty sequence (None) or a sequence  *)
(* of one string (Some).                                                   *)
(***************************************************************************)
NoErr == [kind |-> "", ctx |-> <<>>]
SerializerError(kind, ctx) == [kind |-> kind, ctx |-> ctx]

NoRet == [ok |-> FALSE, bytes |-> <<>>, err |-> NoErr]
Ok(bytes) == [ok |-> TRUE, bytes |-> bytes, err |-> NoErr]
Err(e) == [ok |-> FALSE, bytes |-> <<>>, err |-> e]

\* A call the value has still to make: a method, and its key and value
\* arguments (Unit where the method takes none).
Frame(op, key, val) == [op |-> op, key |-> key, val |-> val]

labels == <<_err_type_metadata, _err_variant_metadata, _err_field_metadata>>
call == <<pc, in_type, ret, last>>

\* Before the first call: no Serializer yet, nothing passed or returned.
Init ==
    /\ pc = "idle"
    /\ in_type = Unit
    /\ output = <<>>
    /\ _err_type_metadata = ""
    /\ _err_variant_metadata = ""
    /\ _err_field_metadata = ""
    /\ stack = <<>>
    /\ err = NoErr
    /\ ret = NoRet
    /\ last = <<>>

\* to_bytes on a Serializer kept from the call before: the output is taken
\* out, the three labels stay as that call left them.
to_bytes_reusing(v) ==
    /\ pc \in {"idle", "returned"}
    /\ last' = IF pc = "returned" THEN <<[in_type |-> in_type, ret |-> ret]>>
                                  ELSE last
    /\ pc' = "running"
    /\ in_type' = v
    /\ output' = <<>>
    /\ stack' = <<Frame("serialize", "", v)>>
    /\ err' = NoErr
    /\ ret' = NoRet
    /\ UNCHANGED labels

\* to_bytes, to the call of in_type.serialize: a new Serializer.
to_bytes(v) ==
    /\ pc \in {"idle", "returned"}
    /\ last' = IF pc = "returned" THEN <<[in_type |-> in_type, ret |-> ret]>>
                                  ELSE last
    /\ pc' = "running"
    /\ in_type' = v
    /\ output' = <<>>
    /\ _err_type_metadata' = ""
    /\ _err_variant_metadata' = ""
    /\ _err_field_metadata' = ""
    /\ stack' = <<Frame("serialize", "", v)>>
    /\ err' = NoErr
    /\ ret' = NoRet

\* to_bytes with the result of in_type.serialize dropped: the output is
\* returned whatever the walk returned.
to_bytes_return_dropping_err ==
    /\ pc = "running"
    /\ err # NoErr \/ stack = <<>>
    /\ ret' = Ok(output)
    /\ pc' = "returned"
    /\ stack' = <<>>
    /\ UNCHANGED <<in_type, output, labels, err, last>>

\* to_bytes, from the return of in_type.serialize: `?` returns its Err,
\* otherwise the output is returned.  The Serializer is dropped.
to_bytes_return ==
    /\ pc = "running"
    /\ err # NoErr \/ stack = <<>>
    /\ ret' = IF err # NoErr THEN Err(err) ELSE Ok(output)
    /\ pc' = "returned"
    /\ stack' = <<>>
    /\ UNCHANGED <<in_type, output, labels, err, last>>

\* The next call of the walk is method op.  A call is made only while no
\* call before it has returned an Err: every caller hands an Err on to its
\* own caller at once (the members' results are returned as they are, and
\* to_bytes applies `?`).
Calls(op) ==
    /\ pc \in {"running", "direct"}
    /\ err = NoErr
    /\ stack # <<>>
    /\ Head(stack).op = op

\* The next call is value.serialize for a value whose impl calls method k.
Serializing(k) == Calls("serialize") /\ Head(stack).val.k = k

\* format_metadata without its is_empty tests: every label is printed.
format_metadata_unchecked ==
    <<"Type: \"" \o _err_type_metadata \o "\", Variant: \""
        \o _err_variant_metadata \o "\", Field: \"" \o _err_field_metadata \o "\"">>

\* Serializer::format_metadata
format_metadata ==
    LET t == _err_type_metadata
        v == _err_variant_metadata
        f == _err_field_metadata
    IN  CASE t # "" /\ v # "" /\ f # "" ->
              <<"Type: \"" \o t \o "\", Variant: \"" \o v \o "\", Field: \"" \o f \o "\"">>
          [] t # "" /\ v # "" /\ f = "" ->
              <<"Type: \"" \o t \o "\", Variant: \"" \o v \o "\"">>
          [] t # "" /\ v = "" /\ f # "" ->
              <<"Type: \"" \o t \o "\", Field: \"" \o f \o "\"">>
          [] t # "" /\ v = "" /\ f = "" ->
              <<"Type: \"" \o t \o "\"">>
          [] OTHER -> <<>>

\* impl Display for SerializerError
to_string(e) ==
    CASE e.kind = "CustomMsg" -> e.ctx[1]
      [] e.kind = "UnsupportedSignedInt" /\ e.ctx # <<>> ->
          "Serialization of signed ints unsupported. Error info - " \o e.ctx[1] \o "."
      [] e.kind = "UnsupportedSignedInt" /\ e.ctx = <<>> ->
          "Serialization of signed ints unsupported."
      [] e.kind = "UnsupportedFloat" /\ e.ctx # <<>> ->
          "Serialization of floats unsupported. Error info - " \o e.ctx[1] \o "."
      [] e.kind = "UnsupportedFloat" /\ e.ctx = <<>> ->
          "Serialization of floats unsupported."
      [] e.kind = "UnsupportedMap" /\ e.ctx # <<>> ->
          "Serialization of maps unsupported. Error info - " \o e.ctx[1] \o "."
      [] e.kind = "UnsupportedMap" /\ e.ctx = <<>> ->
          "Serialization of maps unsupported."
      [] e.kind = "UnsupportedText" /\ e.ctx # <<>> ->
          "Serialization of text types unsupported. Error info - " \o e.ctx[1]
      [] e.kind = "UnsupportedText" /\ e.ctx = <<>> ->
          "Serialization of text types unsupported."
      [] OTHER -> "Undefined metadata"

\* A method returns Err(kind(self.format_metadata())): nothing else changes.
Fails(kind) ==
    /\ err' = SerializerError(kind, format_metadata)
    /\ stack' = Tail(stack)
    /\ UNCHANGED <<output, labels, call>>

\* A method appends bytes to the output and returns Ok(()).
Puts(bytes) ==
    /\ output' = output \o bytes
    /\ stack' = Tail(stack)
    /\ UNCHANGED <<labels, err, call>>

\* The bytes least significant first, as put_u16_le .. put_u64_le write them.
put_uint_le(limbs, nbytes) ==
    [i \in 1..nbytes |->
        LET p == i - 1
            limb == limbs[(p \div 2) + 1]
        IN  IF p % 2 = 1 THEN (limb \div 256) % 256 ELSE limb % 256]

\* BufMut::put_u8 .. put_u64 of a value of nbytes bytes: the bytes in network
\* order, the most significant first.  Byte i has weight 256^(nbytes - i).
put_uint(limbs, nbytes) ==
    [i \in 1..nbytes |->
        LET p == nbytes - i
            limb == limbs[(p \div 2) + 1]
        IN  IF p % 2 = 1 THEN (limb \div 256) % 256 ELSE limb % 256]

(***************************************************************************)
(* impl ser::Serializer for &mut Serializer                                *)
(***************************************************************************)
serialize_bool ==
    /\ Serializing("bool")
    /\ Puts(IF Head(stack).val.n[1] THEN <<1>> ELSE <<0>>)

serialize_i8 == Serializing("i8") /\ Fails("UnsupportedSignedInt")
serialize_i16 == Serializing("i16") /\ Fails("UnsupportedSignedInt")
serialize_i32 == Serializing("i32") /\ Fails("UnsupportedSignedInt")
\* serialize_i64 writing the value as if it were a u64.
serialize_i64_put == Serializing("i64") /\ Puts(<<0, 0, 0, 0, 0, 0, 0, 0>>)

serialize_i64 == Serializing("i64") /\ Fails("UnsupportedSignedInt")

serialize_u8 == Serializing("u8") /\ Puts(put_uint(Head(stack).val.n, 1))
serialize_u16 == Serializing("u16") /\ Puts(put_uint(Head(stack).val.n, 2))
serialize_u32 == Serializing("u32") /\ Puts(put_uint(Head(stack).val.n, 4))
serialize_u64 == Serializing("u64") /\ Puts(put_uint(Head(stack).val.n, 8))

serialize_f32 == Serializing("f32") /\ Fails("UnsupportedFloat")
serialize_f64 == Serializing("f64") /\ Fails("UnsupportedFloat")
serialize_char == Serializing("char") /\ Fails("UnsupportedText")
serialize_str == Serializing("str") /\ Fails("UnsupportedText")

serialize_bytes == Serializing("bytes") /\ Puts(Head(stack).val.n)

serialize_none == Serializing("none") /\ Puts(<<>>)

\* serialize_some writing a presence byte before the wrapped value.
serialize_some_tagged ==
    /\ Serializing("some")
    /\ output' = Append(output, 1)
    /\ stack' = <<Frame("serialize", "", Head(stack).val.items[1])>> \o Tail(stack)
    /\ UNCHANGED <<labels, err, call>>

\* value.serialize(self): the wrapped value is walked next.
serialize_some ==
    /\ Serializing("some")
    /\ stack' = <<Frame("serialize", "", Head(stack).val.items[1])>> \o Tail(stack)
    /\ UNCHANGED <<output, labels, err, call>>

serialize_unit == Serializing("unit") /\ Puts(<<>>)
serialize_unit_struct == Serializing("unit_struct") /\ Puts(<<>>)
serialize_unit_variant == Serializing("unit_variant") /\ Puts(<<>>)

serialize_newtype_struct ==
    /\ Serializing("newtype_struct")
    /\ _err_type_metadata' = Head(stack).val.name
    /\ _err_field_metadata' = ""
    /\ _err_variant_metadata' = ""
    /\ stack' = <<Frame("serialize", "", Head(stack).val.items[1])>> \o Tail(stack)
    /\ UNCHANGED <<output, err, call>>

serialize_newtype_variant ==
    /\ Serializing("newtype_variant")
    /\ _err_type_metadata' = Head(stack).val.name
    /\ _err_variant_metadata' = Head(stack).val.variant
    /\ _err_field_metadata' = ""
    /\ stack' = <<Frame("serialize", "", Head(stack).val.items[1])>> \o Tail(stack)
    /\ UNCHANGED <<output, err, call>>

\* What the value does with the compound serializer it was handed: one call
\* of method op per member, then end.
Members(v, op, end) ==
    [i \in 1..Len(v.items) |->
        Frame(op, IF v.keys = <<>> THEN "" ELSE v.keys[i], v.items[i])]
    \o <<Frame(end, "", Unit)>>

serialize_seq ==
    /\ Serializing("seq")
    /\ stack' = Members(Head(stack).val, "SerializeSeq::serialize_element",
                        "SerializeSeq::end") \o Tail(stack)
    /\ UNCHANGED <<output, labels, err, call>>

serialize_tuple ==
    /\ Serializing("tuple")
    /\ stack' = Members(Head(stack).val, "SerializeTuple::serialize_element",
                        "SerializeTuple::end") \o Tail(stack)
    /\ UNCHANGED <<output, labels, err, call>>

serialize_tuple_struct ==
    /\ Serializing("tuple_struct")
    /\ _err_type_metadata' = Head(stack).val.name
    /\ _err_field_metadata' = ""
    /\ _err_variant_metadata' = ""
    /\ stack' = Members(Head(stack).val, "SerializeTupleStruct::serialize_field",
                        "SerializeTupleStruct::end") \o Tail(stack)
    /\ UNCHANGED <<output, err, call>>

serialize_tuple_variant ==
    /\ Serializing("tuple_variant")
    /\ _err_type_metadata' = Head(stack).val.name
    /\ _err_variant_metadata' = Head(stack).val.variant
    /\ _err_field_metadata' = ""
    /\ stack' = Members(Head(stack).val, "SerializeTupleVariant::serialize_field",
                        "SerializeTupleVariant::end") \o Tail(stack)
    /\ UNCHANGED <<output, err, call>>

\* serialize_map handing the Serializer out as serialize_seq does, the keys
\* and values then walked as elements.
serialize_map_as_seq ==
    /\ Serializing("map")
    /\ stack' = Members(Head(stack).val, "SerializeSeq::serialize_element",
                        "SerializeSeq::end") \o Tail(stack)
    /\ UNCHANGED <<output, labels, err, call>>

serialize_map == Serializing("map") /\ Fails("UnsupportedMap")

\* serialize_struct without its assignment of the type label.
serialize_struct_without_type ==
    /\ Serializing("struct")
    /\ _err_field_metadata' = ""
    /\ _err_variant_metadata' = ""
    /\ stack' = Members(Head(stack).val, "SerializeStruct::serialize_field",
                        "SerializeStruct::end") \o Tail(stack)
    /\ UNCHANGED <<_err_type_metadata, output, err, call>>

serialize_struct ==
    /\ Serializing("struct")
    /\ _err_type_metadata' = Head(stack).val.name
    /\ _err_field_metadata' = ""
    /\ _err_variant_metadata' = ""
    /\ stack' = Members(Head(stack).val, "SerializeStruct::serialize_field",
                        "SerializeStruct::end") \o Tail(stack)
    /\ UNCHANGED <<output, err, call>>

\* serialize_struct_variant without its clear of the field label.
serialize_struct_variant_keeping_field ==
    /\ Serializing("struct_variant")
    /\ _err_type_metadata' = Head(stack).val.name
    /\ _err_variant_metadata' = Head(stack).val.variant
    /\ stack' = Members(Head(stack).val, "SerializeStructVariant::serialize_field",
                        "SerializeStructVariant::end") \o Tail(stack)
    /\ UNCHANGED <<_err_field_metadata, output, err, call>>

serialize_struct_variant ==
    /\ Serializing("struct_variant")
    /\ _err_type_metadata' = Head(stack).val.name
    /\ _err_variant_metadata' = Head(stack).val.variant
    /\ _err_field_metadata' = ""
    /\ stack' = Members(Head(stack).val, "SerializeStructVariant::serialize_field",
                        "SerializeStructVariant::end") \o Tail(stack)
    /\ UNCHANGED <<output, err, call>>

(***************************************************************************)
(* The impls for the compound types.                                       *)
(***************************************************************************)
\* value.serialize(&mut **self): the member is walked next.
SerializesMember ==
    /\ stack' = <<Frame("serialize", "", Head(stack).val)>> \o Tail(stack)
    /\ UNCHANGED <<output, err, call>>

\* end writing a closing byte.
Ends_with_delimiter ==
    /\ output' = Append(output, 0)
    /\ stack' = Tail(stack)
    /\ UNCHANGED <<labels, err, call>>

\* end: Ok(()).
Ends ==
    /\ stack' = Tail(stack)
    /\ UNCHANGED <<output, labels, err, call>>

SerializeSeq_serialize_element ==
    /\ Calls("SerializeSeq::serialize_element")
    /\ SerializesMember
    /\ UNCHANGED labels

SerializeSeq_end == Calls("SerializeSeq::end") /\ Ends

SerializeTuple_serialize_element ==
    /\ Calls("SerializeTuple::serialize_element")
    /\ SerializesMember
    /\ UNCHANGED labels

SerializeTuple_end == Calls("SerializeTuple::end") /\ Ends

SerializeTupleVariant_serialize_field ==
    /\ Calls("SerializeTupleVariant::serialize_field")
    /\ SerializesMember
    /\ UNCHANGED labels

SerializeTupleVariant_end == Calls("SerializeTupleVariant::end") /\ Ends

SerializeStructVariant_serialize_field ==
    /\ Calls("SerializeStructVariant::serialize_field")
    /\ _err_field_metadata' = Head(stack).key
    /\ SerializesMember
    /\ UNCHANGED <<_err_type_metadata, _err_variant_metadata>>

SerializeStructVariant_end == Calls("SerializeStructVariant::end") /\ Ends

SerializeTupleStruct_serialize_field ==
    /\ Calls("SerializeTupleStruct::serialize_field")
    /\ SerializesMember
    /\ UNCHANGED labels

SerializeTupleStruct_end == Calls("SerializeTupleStruct::end") /\ Ends

\* serialize_field setting the field label only while none is set.
SerializeStruct_serialize_field_once ==
    /\ Calls("SerializeStruct::serialize_field")
    /\ _err_field_metadata' = IF _err_field_metadata = "" THEN Head(stack).key
                              ELSE _err_field_metadata
    /\ SerializesMember
    /\ UNCHANGED <<_err_type_metadata, _err_variant_metadata>>

SerializeStruct_serialize_field ==
    /\ Calls("SerializeStruct::serialize_field")
    /\ _err_field_metadata' = Head(stack).key
    /\ SerializesMember
    /\ UNCHANGED <<_err_type_metadata, _err_variant_metadata>>

SerializeStruct_end == Calls("SerializeStruct::end") /\ Ends

(***************************************************************************)
(* impl ser::SerializeMap for &mut Serializer.  serialize_map never hands  *)
(* the Serializer out as a SerializeMap, so no walk reaches these; they    *)
(* are called directly (SpecMap).                                          *)
(***************************************************************************)
SerializeMap_serialize_key ==
    Calls("SerializeMap::serialize_key") /\ Fails("UnsupportedMap")

SerializeMap_serialize_entry ==
    Calls("SerializeMap::serialize_entry") /\ Fails("UnsupportedMap")

SerializeMap_serialize_value ==
    Calls("SerializeMap::serialize_value") /\ Fails("UnsupportedMap")

SerializeMap_end == Calls("SerializeMap::end") /\ Fails("UnsupportedMap")

\* The methods of the Serializer, each called by the value being walked.
Walk ==
    \/ serialize_bool
    \/ serialize_i8 \/ serialize_i16 \/ serialize_i32 \/ serialize_i64
    \/ serialize_u8 \/ serialize_u16 \/ serialize_u32 \/ serialize_u64
    \/ serialize_f32 \/ serialize_f64 \/ serialize_char \/ serialize_str
    \/ serialize_bytes
    \/ serialize_none \/ serialize_some
    \/ serialize_unit \/ serialize_unit_struct \/ serialize_unit_variant
    \/ serialize_newtype_struct \/ serialize_newtype_variant
    \/ serialize_seq \/ serialize_tuple
    \/ serialize_tuple_struct \/ serialize_tuple_variant
    \/ serialize_map
    \/ serialize_struct \/ serialize_struct_variant
    \/ SerializeSeq_serialize_element \/ SerializeSeq_end
    \/ SerializeTuple_serialize_element \/ SerializeTuple_end
    \/ SerializeTupleVariant_serialize_field \/ SerializeTupleVariant_end
    \/ SerializeStructVariant_serialize_field \/ SerializeStructVariant_end
    \/ SerializeTupleStruct_serialize_field \/ SerializeTupleStruct_end
    \/ SerializeStruct_serialize_field \/ SerializeStruct_end

\* One call of to_bytes, with any of the inputs.
Next ==
    \/ \E v \in Inputs : pc = "idle" /\ to_bytes(v)
    \/ to_bytes_return
    \/ Walk

Spec == Init /\ [][Next]_vars

\* Calls of to_bytes one after another, each with any of the values of
\* Repeated; `last` holds the call before the current one.
NextCalls ==
    \/ \E v \in Repeated : to_bytes(v)
    \/ to_bytes_return
    \/ Walk

SpecCalls == Init /\ [][NextCalls]_vars

\* The steps of a map called directly, on a Serializer whose labels and
\* output are any that a walk leaves (DirectTypes .. DirectOutputs), beside
\* the calls of to_bytes.
DirectTypes == {"", "S", "Enum"}
DirectVariants == {"", "StructVariant"}
DirectFields == {"", "field"}
DirectOutputs == {<<>>, <<42>>, <<1, 2>>}
MapSteps ==
    { "SerializeMap::serialize_key", "SerializeMap::serialize_entry",
      "SerializeMap::serialize_value", "SerializeMap::end" }

InitMap ==
    \/ Init
    \/ /\ pc = "direct"
       /\ in_type = Map(<<U8(42), Str>>)
       /\ output \in DirectOutputs
       /\ _err_type_metadata \in DirectTypes
       /\ _err_variant_metadata \in DirectVariants
       /\ _err_field_metadata \in DirectFields
       /\ (_err_type_metadata = "") =>
              (_err_variant_metadata = "" /\ _err_field_metadata = "")
       /\ \E op \in MapSteps :
              stack = <<Frame(op, "", IF op = "SerializeMap::end" THEN Unit
                                      ELSE in_type.items[1])>>
       /\ err = NoErr
       /\ ret = NoRet
       /\ last = <<>>

NextMap ==
    \/ Next
    \/ SerializeMap_serialize_key
    \/ SerializeMap_serialize_entry
    \/ SerializeMap_serialize_value
    \/ SerializeMap_end

SpecMap == InitMap /\ [][NextMap]_vars

(***************************************************************************)
(* What the claims speak of.                                               *)
(***************************************************************************)
SignedKinds == {"i8", "i16", "i32", "i64"}
FloatKinds == {"f32", "f64"}
TextKinds == {"char", "str"}
UnsupportedKinds == SignedKinds \cup FloatKinds \cup TextKinds \cup {"map"}
UnsignedKinds == {"u8", "u16", "u32", "u64"}
ListKinds ==
    {"seq", "tuple", "tuple_struct", "tuple_variant", "struct", "struct_variant"}
NamedKinds ==
    {"newtype_struct", "tuple_struct", "struct",
     "newtype_variant", "tuple_variant", "struct_variant"}

\* The error kind of an unsupported kind of value.
Unsupported(k) ==
    CASE k \in SignedKinds -> "UnsupportedSignedInt"
      [] k \in FloatKinds -> "UnsupportedFloat"
      [] k \in TextKinds -> "UnsupportedText"
      [] k = "map" -> "UnsupportedMap"

\* The description that opens the message of an error kind.
Description(kind) ==
    CASE kind = "UnsupportedSignedInt" -> "Serialization of signed ints unsupported"
      [] kind = "UnsupportedFloat" -> "Serialization of floats unsupported"
      [] kind = "UnsupportedText" -> "Serialization of text types unsupported"
      [] kind = "UnsupportedMap" -> "Serialization of maps unsupported"

\* A context: the labels of the nearest enclosing named type, variant, field.
Ctx(t, v, f) == [t |-> t, v |-> v, f |-> f]

\* The context in which the members of v are, v itself being in context c:
\* a named container gives its own names, an anonymous one adds nothing.
Inside(v, c) ==
    CASE v.k \in {"newtype_struct", "tuple_struct", "struct"} -> Ctx(v.name, "", "")
      [] v.k \in {"newtype_variant", "tuple_variant", "struct_variant"} ->
          Ctx(v.name, v.variant, "")
      [] OTHER -> c

OfMember(v, i, c) ==
    IF v.keys = <<>> THEN Inside(v, c)
    ELSE Ctx(Inside(v, c).t, Inside(v, c).v, v.keys[i])

\* The first unsupported value of v in depth-first, left-to-right order, and
\* the context of the containers open around it: [fail, kind, c].  A map is
\* unsupported as a whole.
NoFailure == [fail |-> FALSE, kind |-> "", c |-> Ctx("", "", "")]

RECURSIVE FirstFailure(_, _)
FirstFailure(v, c) ==
    IF v.k \in UnsupportedKinds
    THEN [fail |-> TRUE, kind |-> Unsupported(v.k), c |-> c]
    ELSE LET failing == { i \in 1..Len(v.items) :
                            FirstFailure(v.items[i], OfMember(v, i, c)).fail }
         IN  IF failing = {} THEN NoFailure
             ELSE LET i == CHOOSE j \in failing : \A m \in failing : j <= m
                  IN  FirstFailure(v.items[i], OfMember(v, i, c))

Failure(v) == FirstFailure(v, Ctx("", "", ""))

\* C1: at a failure the labels are those of the containers then open around
\* the failing value, never those of a finished sibling; for a record S whose
\* first field holds a finished named container and whose second field b is
\* unsupported, the context is Type: "S", Field: "b".
C1_ContextOfOpenContainers ==
    /\ (pc = "running" /\ err # NoErr) =>
          Ctx(_err_type_metadata, _err_variant_metadata, _err_field_metadata)
              = Failure(in_type).c
    /\ (/\ pc = "returned"
        /\ \E c \in Completed, x \in BadLeaves :
              in_type = Struct("S", <<"a", "b">>, <<c, x>>))
       => ret.err.ctx = <<"Type: \"S\", Field: \"b\"">>

\* The context the claim names for a value placed directly in a named
\* container at top level.
PlacementContext(v) ==
    CASE v.k \in {"newtype_struct", "tuple_struct"} ->
          "Type: \"" \o v.name \o "\""
      [] v.k = "struct" ->
          "Type: \"" \o v.name \o "\", Field: \"" \o v.keys[Len(v.keys)] \o "\""
      [] v.k \in {"newtype_variant", "tuple_variant"} ->
          "Type: \"" \o v.name \o "\", Variant: \"" \o v.variant \o "\""
      [] v.k = "struct_variant" ->
          "Type: \"" \o v.name \o "\", Variant: \"" \o v.variant
              \o "\", Field: \"" \o v.keys[Len(v.keys)] \o "\""

\* C2: for every unsupported kind placed directly in a top-level named
\* container the message is "<description>. Error info - <context>." with the
\* closing period.
C2_MessageOfPlacement ==
    (/\ pc = "returned"
     /\ \E x \in BadLeaves : in_type \in Placements(x))
    => /\ ~ret.ok
       /\ to_string(ret.err) =
              Description(Unsupported(in_type.items[Len(in_type.items)].k))
                  \o ". Error info - " \o PlacementContext(in_type) \o "."

\* C3: once a method has returned an error nothing more is written and no
\* other method is called: the next step is the return of to_bytes with that
\* error; to_bytes returns Ok exactly when the value holds nothing
\* unsupported, and otherwise the error of the first unsupported value in
\* depth-first, left-to-right order, with no bytes.
C3_FirstErrorAborts ==
    [][ /\ (pc = "running" /\ err # NoErr) =>
              /\ pc' = "returned"
              /\ output' = output
              /\ err' = err
              /\ ret' = Err(err)
        /\ (pc = "running" /\ pc' = "returned") =>
              /\ ret'.ok = ~Failure(in_type).fail
              /\ ~ret'.ok =>
                    /\ ret'.err.kind = Failure(in_type).kind
                    /\ ret'.bytes = <<>>
      ]_vars

\* A failure after bytes were written and with members still to walk, inside
\* a nested container, has been returned.
C3_Witness ==
    /\ pc = "returned"
    /\ in_type = Struct("S", <<"a", "b">>,
                        <<SeqOf(<<U8(42), I8, U8(255)>>), U8(0)>>)
    /\ output = <<42>>
    /\ ret = Err(SerializerError("UnsupportedSignedInt",
                                 <<"Type: \"S\", Field: \"a\"">>))

\* The wire layout of a value that encodes: a boolean is one byte, 1 or 0;
\* an unsigned integer is its bytes, the most significant first; a byte span
\* is its bytes; everything else is its members' layouts one after another.
RECURSIVE BigEndian(_)
BigEndian(limbs) ==
    IF limbs = <<>> THEN <<>>
    ELSE BigEndian(Tail(limbs)) \o <<Head(limbs) \div 256, Head(limbs) % 256>>

RECURSIVE Concat(_)
Concat(seqs) == IF seqs = <<>> THEN <<>> ELSE Head(seqs) \o Concat(Tail(seqs))

RECURSIVE WireLayout(_)
WireLayout(v) ==
    CASE v.k = "bool" -> IF v.n[1] THEN <<1>> ELSE <<0>>
      [] v.k = "u8" -> v.n
      [] v.k \in {"u16", "u32", "u64"} -> BigEndian(v.n)
      [] v.k = "bytes" -> v.n
      [] OTHER -> Concat([i \in 1..Len(v.items) |-> WireLayout(v.items[i])])

\* C4: every value that encodes, encodes to its wire layout (so that of a
\* member is the member's own encoding); a sequence, tuple, tuple struct,
\* struct, tuple variant or struct variant whose members all encode, encodes
\* to its members' encodings one after another and nothing else; an empty
\* sequence to no bytes.
C4_Concatenation ==
    /\ (pc = "returned" /\ ret.ok) => ret.bytes = WireLayout(in_type)
    /\ (pc = "returned" /\ in_type.k \in ListKinds /\ ~Failure(in_type).fail) =>
          ret = Ok(Concat([i \in 1..Len(in_type.items) |->
                              WireLayout(in_type.items[i])]))
    /\ (pc = "returned" /\ in_type = SeqOf(<<>>)) => ret = Ok(<<>>)

C4_Witness ==
    /\ pc = "returned"
    /\ in_type = Struct("S", FieldKeys(2), <<U16(258), U8(42)>>)
    /\ ret = Ok(<<1, 2, 42>>)

Width(k) ==
    CASE k = "u8" -> 8 [] k = "u16" -> 16 [] k = "u32" -> 32 [] k = "u64" -> 64

\* C5: an unsigned integer of width w encodes to exactly w/8 bytes, the most
\* significant first: each pair of bytes, from the end, is one 16-bit limb of
\* the value, from the least significant; u16 258 gives 1, 2; a boolean
\* encodes to the one byte 1 (true) or 0 (false).
C5_BigEndian ==
    /\ (pc = "returned" /\ in_type.k \in UnsignedKinds) =>
          LET nbytes == Width(in_type.k) \div 8
              b == ret.bytes
          IN  /\ ret.ok
              /\ Len(b) = nbytes
              /\ \A i \in 1..nbytes : b[i] \in 0..255
              /\ in_type.k = "u8" => b[1] = in_type.n[1]
              /\ in_type.k # "u8" =>
                    \A j \in 1..Len(in_type.n) :
                        b[nbytes - 2 * j + 1] * 256 + b[nbytes - 2 * j + 2]
                            = in_type.n[j]
    /\ (pc = "returned" /\ in_type = U16(258)) => ret = Ok(<<1, 2>>)
    /\ (pc = "returned" /\ in_type.k = "bool") =>
          ret = Ok(IF in_type.n[1] THEN <<1>> ELSE <<0>>)

C5_Witness ==
    /\ pc = "returned"
    /\ in_type = U32(<<772, 258>>)
    /\ ret = Ok(<<1, 2, 3, 4>>)

\* C6: a map reached by the walk, and each step of a map (key, entry, value,
\* end), fails with UnsupportedMap carrying the context of the labels at that
\* moment; nothing is written and no key or value is walked; to_bytes of a
\* value whose first unsupported part is a map returns UnsupportedMap.
C6_MapFailsAtFirstContact ==
    [][ /\ (Serializing("map") \/ \E op \in MapSteps : Calls(op)) =>
              /\ err' = SerializerError("UnsupportedMap", format_metadata)
              /\ output' = output
              /\ stack' = Tail(stack)
              /\ UNCHANGED labels
        /\ (pc = "running" /\ pc' = "returned"
                /\ Failure(in_type).kind = "UnsupportedMap") =>
              /\ ~ret'.ok
              /\ ret'.err.kind = "UnsupportedMap"
      ]_vars

\* A map two containers deep has failed, with the context of its field.
C6_Witness ==
    /\ pc = "returned"
    /\ in_type = Struct("D", <<"d">>, <<Some(Map(<<>>))>>)
    /\ output = <<>>
    /\ ret = Err(SerializerError("UnsupportedMap", <<"Type: \"D\", Field: \"d\"">>))

\* C7: a signed integer, a float, a character or a string, of any width and
\* wherever the walk meets it, fails with UnsupportedSignedInt,
\* UnsupportedFloat or UnsupportedText carrying the context of the labels at
\* that moment, writes nothing, and is what to_bytes returns.
C7_UnsupportedScalars ==
    [][ /\ \A k \in SignedKinds \cup FloatKinds \cup TextKinds :
              Serializing(k) =>
                  /\ err' = SerializerError(Unsupported(k), format_metadata)
                  /\ output' = output
        /\ (pc = "running" /\ pc' = "returned" /\ err # NoErr) => ret' = Err(err)
      ]_vars

C7_Witness ==
    /\ pc = "returned"
    /\ in_type = TupleVariant("Enum", "TupleVariant", <<U8(42), F32>>)
    /\ output = <<42>>
    /\ ret = Err(SerializerError("UnsupportedFloat",
                                 <<"Type: \"Enum\", Variant: \"TupleVariant\"">>))

\* C8: a struct or struct variant of two scalar fields of which only the
\* second is unsupported reports the second field's name: the field label is
\* the second name and the context is that of the record with that name.
C8_SiblingFields ==
    (/\ pc = "returned"
     /\ in_type.k \in {"struct", "struct_variant"}
     /\ Len(in_type.items) = 2
     /\ in_type.items[1].k \in UnsignedKinds \cup {"bool"}
     /\ in_type.items[2].k \in SignedKinds \cup FloatKinds \cup TextKinds)
    => /\ _err_field_metadata = in_type.keys[2]
       /\ _err_field_metadata # in_type.keys[1]
       /\ ret.err.ctx = <<PlacementContext(in_type)>>

C8_Witness ==
    /\ pc = "returned"
    /\ in_type = StructVariant("E", "V", <<"a", "b">>, <<U8(42), Str>>)
    /\ ret.err.ctx = <<"Type: \"E\", Variant: \"V\", Field: \"b\"">>

\* No part of v is a container that sets a label.
RECURSIVE Nameless(_)
Nameless(v) ==
    /\ v.k \notin NamedKinds
    /\ \A i \in 1..Len(v.items) : Nameless(v.items[i])

\* The labels that are set, in the order type, variant, field.
LabelsSet ==
    "Type: \"" \o _err_type_metadata \o "\""
    \o (IF _err_variant_metadata = "" THEN ""
        ELSE ", Variant: \"" \o _err_variant_metadata \o "\"")
    \o (IF _err_field_metadata = "" THEN ""
        ELSE ", Field: \"" \o _err_field_metadata \o "\"")

\* C9: an unsupported value met with no named container entered (bare, or in
\* sequences, tuples and options only) gives an error with no context, whose
\* message is the description and a period; an error's context is the labels
\* that are set, in the order type, variant, field, and none when no type is.
C9_NoContext ==
    /\ (pc = "returned" /\ Nameless(in_type) /\ Failure(in_type).fail) =>
          /\ ret.err.kind = Failure(in_type).kind
          /\ ret.err.ctx = <<>>
          /\ to_string(ret.err) = Description(ret.err.kind) \o "."
    /\ (pc = "running" /\ err # NoErr) =>
          err.ctx = IF _err_type_metadata = "" THEN <<>> ELSE <<LabelsSet>>

C9_Witness ==
    /\ pc = "returned"
    /\ in_type = Some(SeqOf(<<Map(<<>>)>>))
    /\ to_string(ret.err) = "Serialization of maps unsupported."

\* C10: Some(x), a newtype struct of x and a newtype variant of x encode to
\* the very bytes x encoded to in the call before; None, unit, a unit struct
\* and a unit variant encode to no bytes.
C10_TransparentWrappers ==
    /\ (/\ pc = "returned"
        /\ last # <<>>
        /\ in_type.k \in {"some", "newtype_struct", "newtype_variant"}
        /\ in_type.items[1] = last[1].in_type
        /\ last[1].ret.ok)
       => ret = last[1].ret
    /\ (/\ pc = "returned"
        /\ in_type.k \in {"none", "unit", "unit_struct", "unit_variant"})
       => ret = Ok(<<>>)

C10_Witness ==
    /\ pc = "returned"
    /\ last = <<[in_type |-> SeqOf(<<U8(42), U16(258)>>), ret |-> Ok(<<42, 1, 2>>)]>>
    /\ in_type = NewtypeVariant("E", "NV", SeqOf(<<U8(42), U16(258)>>))
    /\ ret = Ok(<<42, 1, 2>>)

\* C11: every call of to_bytes starts from an empty output and three empty
\* labels, whatever the call before left; a value encoded in two calls one
\* after the other returns the same bytes, or the same error with the same
\* context, both times, whatever call came before the two (one that failed,
\* one that left labels set); and a value with no named container that
\* fails returns no context, whatever labels the call before left.
C11_CallsIsolated ==
    [][ /\ (pc \in {"idle", "returned"} /\ pc' = "running") =>
              /\ output' = <<>>
              /\ labels' = <<"", "", "">>
              /\ err' = NoErr
              /\ stack' = <<Frame("serialize", "", in_type')>>
        /\ (pc = "running" /\ pc' = "returned" /\ last # <<>>
                /\ last[1].in_type = in_type) =>
              ret' = last[1].ret
        /\ (pc = "running" /\ pc' = "returned" /\ Nameless(in_type)
                /\ Failure(in_type).fail) =>
              ret' = Err(SerializerError(Failure(in_type).kind, <<>>))
      ]_vars

\* A bare string has failed with no context, in the call after one that
\* failed and left the three labels set.
C11_Witness ==
    /\ pc = "returned"
    /\ last = <<[in_type |-> StructVariant("Enum", "StructVariant", <<"field">>, <<I8>>),
                 ret |-> Err(SerializerError("UnsupportedSignedInt",
                    <<"Type: \"Enum\", Variant: \"StructVariant\", Field: \"field\"">>))]>>
    /\ in_type = Str
    /\ ret = Err(SerializerError("UnsupportedText", <<>>))

\* C12: the step that enters a newtype struct, tuple struct or struct leaves
\* the labels equal to (its type name, none, none), and the step that enters
\* a newtype variant, tuple variant or struct variant leaves them equal to
\* (enum name, variant name, none), whatever they were, with nothing written
\* and no member walked yet; each field step of a struct or struct variant
\* sets the field label to the field's own name, leaves the other two, and
\* the field's value is walked next.
C12_EntryOverwrites ==
    [][ /\ \A k \in {"newtype_struct", "tuple_struct", "struct"} :
              Serializing(k) =>
                  /\ labels' = <<Head(stack).val.name, "", "">>
                  /\ output' = output
        /\ \A k \in {"newtype_variant", "tuple_variant", "struct_variant"} :
              Serializing(k) =>
                  /\ labels' = <<Head(stack).val.name, Head(stack).val.variant, "">>
                  /\ output' = output
        /\ (\/ Calls("SerializeStruct::serialize_field")
            \/ Calls("SerializeStructVariant::serialize_field")) =>
              /\ labels' = <<_err_type_metadata, _err_variant_metadata,
                             Head(stack).key>>
              /\ output' = output
              /\ Head(stack') = Frame("serialize", "", Head(stack).val)
      ]_vars

\* A struct variant entered as the value of field a of S has overwritten
\* all three labels, and its own field x has then set the field label.
C12_Witness ==
    /\ pc = "running"
    /\ in_type = Struct("S", <<"a", "b">>,
                        <<StructVariant("InnerE", "IV", <<"x">>, <<U8(255)>>), I8>>)
    /\ labels = <<"InnerE", "IV", "x">>
    /\ stack # <<>>
    /\ Head(stack) = Frame("serialize", "", U8(255))

\* The sequence and tuple methods: entering, each element, ending.
SequenceSteps ==
    \/ Serializing("seq")
    \/ Serializing("tuple")
    \/ Calls("SerializeSeq::serialize_element")
    \/ Calls("SerializeSeq::end")
    \/ Calls("SerializeTuple::serialize_element")
    \/ Calls("SerializeTuple::end")

\* The first unsupported value of struct v is an element placed directly in
\* the sequence or tuple that is the value of field i.
ElementOfField(v, i) ==
    /\ v.k = "struct"
    /\ i \in 1..Len(v.items)
    /\ v.items[i].k \in {"seq", "tuple"}
    /\ \A m \in 1..(i - 1) : ~Failure(v.items[m]).fail
    /\ \E j \in 1..Len(v.items[i].items) :
          /\ v.items[i].items[j].k \in UnsupportedKinds
          /\ \A m \in 1..(j - 1) : ~Failure(v.items[i].items[m]).fail

\* C13: entering a sequence or tuple, each of its element steps and its end
\* leave the three labels as they were; and an unsupported element placed
\* directly in a sequence or tuple that is the value of field f of record S
\* is returned with the context Type: "S", Field: "f".
C13_SequencesAddNoLabel ==
    [][ /\ SequenceSteps => UNCHANGED labels
        /\ (pc = "running" /\ pc' = "returned") =>
              \A i \in 1..Len(in_type.items) :
                  ElementOfField(in_type, i) =>
                      ret' = Err(SerializerError(Failure(in_type).kind,
                                <<"Type: \"" \o in_type.name \o "\", Field: \""
                                    \o in_type.keys[i] \o "\"">>))
      ]_vars

\* Every type, variant and field name in v is non-empty.
RECURSIVE NamesNonEmpty(_)
NamesNonEmpty(v) ==
    /\ v.k \in NamedKinds => v.name # ""
    /\ v.k \in {"newtype_variant", "tuple_variant", "struct_variant"} =>
          v.variant # ""
    /\ \A i \in 1..Len(v.keys) : v.keys[i] # ""
    /\ \A i \in 1..Len(v.items) : NamesNonEmpty(v.items[i])

\* C14: in every state of a call on a value whose type, variant and field
\* names are non-empty, a set variant label or a set field label implies a
\* set type label; so an error has no context only when all three labels
\* are empty, and an error recorded while a label is set carries every label
\* that is set.
C14_TypeLabelLeads ==
    (pc \in {"running", "returned"} /\ NamesNonEmpty(in_type)) =>
        /\ (_err_variant_metadata # "" \/ _err_field_metadata # "") =>
              _err_type_metadata # ""
        /\ (err # NoErr /\ err.ctx = <<>>) => labels = <<"", "", "">>
        /\ (err # NoErr /\ labels # <<"", "", "">>) => err.ctx = <<LabelsSet>>

\* A map in the field of a struct variant has failed with all three labels
\* set and all three in its context.
C14_Witness ==
    /\ pc = "running"
    /\ in_type = StructVariant("Enum", "StructVariant", <<"field">>, <<Map(<<>>)>>)
    /\ labels = <<"Enum", "StructVariant", "field">>
    /\ err = SerializerError("UnsupportedMap",
                <<"Type: \"Enum\", Variant: \"StructVariant\", Field: \"field\"">>)

====
